---------------------------- MODULE Spec2Model ----------------------------
(***************************************************************************)
(* Model of src/server/embedding.py: a single-shot command-line adapter    *)
(* that reads a JSON document from standard input, hands the decoded value *)
(* to a sentence-embedding collaborator and prints the returned vectors as *)
(* JSON.                                                                   *)
(*                                                                         *)
(* Text (standard input, the printed line) is modelled as a sequence of    *)
(* lexemes: the concrete text is the lexemes joined by one space.  Python  *)
(* objects are records [k, s, n, items] (kind, string payload, numeric     *)
(* payload, children).  Floats are coded as integers, x standing for x/4,  *)
(* so that formatting and parsing a float are real conversions.            *)
(***************************************************************************)
EXTENDS Integers, Sequences, FiniteSets

VARIABLES
    stdin,            \* content of standard input, a sequence of lexemes
    stdin_errors,     \* how sys.stdin treats a byte that is not UTF-8
    pc,               \* position of the process inside main()
    input_text,       \* local input_text  (line 10)
    texts,            \* local texts       (line 11)
    model,            \* local model       (line 14): loaded or not
    embeddings,       \* local embeddings  (line 17)
    embeddings_list,  \* local embeddings_list (line 20)
    exc,              \* the exception in flight, NoExc when none
    stdout,           \* lines written to standard output
    stderr,           \* lines written to standard error
    exitcode,         \* exit code of the process, Running while it runs
    raised,           \* history: the exception raised in this run, if any
    raisedAt,         \* history: the step that raised it
    encodeCalls,      \* history: arguments of the calls of model.encode
    steps,            \* history: the steps executed in this run, in order
    run,              \* number of the current invocation of the program
    oracle,           \* the collaborator's answers, fixed once given
    prev              \* observable outcome of the previous invocation

vars == << stdin, stdin_errors, pc, input_text, texts, model, embeddings, embeddings_list,
           exc, stdout, stderr, exitcode, raised, raisedAt, encodeCalls,
           steps, run, oracle, prev >>

(***************************************************************************)
(* Bounds of the model.                                                    *)
(***************************************************************************)
\* longest standard input enumerated exhaustively over Alphabet
MaxLen == 3
\* number of invocations of the program in one behaviour
MaxRuns == 2

(***************************************************************************)
(* Lexemes.                                                                *)
(***************************************************************************)
BadByte == "<0xff>"

StrLexemes == {"\"a\"", "\"b\""}

\* the text between the quotes of a string lexeme (json.decoder scanstring)
StrOf(t) == IF t = "\"a\"" THEN "a" ELSE "b"

\* the lexeme json.encoder writes for a str
Quote(s) == IF s = "a" THEN "\"a\"" ELSE "\"b\""

IntLexemes == {"0", "1"}
IntOf(t) == IF t = "0" THEN 0 ELSE 1
IntRepr(n) == IF n = 0 THEN "0" ELSE "1"

\* floats: the code x stands for x/4; r is float.__repr__ of it
FloatTable == << [x |-> -6, r |-> "-1.5"], [x |-> 1, r |-> "0.25"],
                 [x |-> 2, r |-> "0.5"],   [x |-> 8, r |-> "2.0"] >>
FloatLexemes == {FloatTable[i].r : i \in DOMAIN FloatTable}
FloatOf(t) == (CHOOSE e \in {FloatTable[i] : i \in DOMAIN FloatTable} : e.r = t).x
FloatRepr(x) == (CHOOSE e \in {FloatTable[i] : i \in DOMAIN FloatTable} : e.x = x).r

\* constants json.loads accepts although RFC 8259 has no such literals
NonStandardConstants == {"NaN", "Infinity", "-Infinity"}

(***************************************************************************)
(* Python objects.                                                         *)
(***************************************************************************)
PyObj(k, s, n, items) == [k |-> k, s |-> s, n |-> n, items |-> items]
PyNone == PyObj("None", "", 0, << >>)
PyBool(b) == PyObj("bool", "", IF b THEN 1 ELSE 0, << >>)
PyStr(s) == PyObj("str", s, 0, << >>)
PyInt(n) == PyObj("int", "", n, << >>)
PyFloat(x) == PyObj("float", "", x, << >>)
\* nan, inf, -inf: s names which
PySpecialFloat(s) == PyObj("float", s, 0, << >>)
PyList(items) == PyObj("list", "", 0, items)
\* a dict: items alternates key, value, in insertion order
PyDict(items) == PyObj("dict", "", 0, items)

\* d[key] = value on a dict's items: a present key keeps its place
RECURSIVE DictSet(_, _, _)
DictSet(items, key, value) ==
    IF items = << >> THEN << key, value >>
    ELSE IF items[1] = key
         THEN << key, value >> \o SubSeq(items, 3, Len(items))
         ELSE << items[1], items[2] >>
              \o DictSet(SubSeq(items, 3, Len(items)), key, value)

(***************************************************************************)
(* json.loads.  A parse result is [ok, val, next, msg]: next is the index  *)
(* after the value, msg the JSONDecodeError message on failure.            *)
(***************************************************************************)
Parsed(val, next) == [ok |-> TRUE, val |-> val, next |-> next, msg |-> ""]
ParseError(msg, at) == [ok |-> FALSE, val |-> PyNone, next |-> at, msg |-> msg]

Tok(toks, i) == IF i \in 1..Len(toks) THEN toks[i] ELSE ""

RECURSIVE scan_once(_, _), JSONArrayRest(_, _, _), JSONObjectRest(_, _, _)

\* json.scanner py_make_scanner._scan_once
scan_once(toks, i) ==
    LET t == Tok(toks, i) IN
    IF t \in StrLexemes THEN Parsed(PyStr(StrOf(t)), i + 1)
    ELSE IF t = "{" THEN
        IF Tok(toks, i + 1) = "}" THEN Parsed(PyDict(<< >>), i + 2)
        ELSE IF Tok(toks, i + 1) \notin StrLexemes
        THEN ParseError("Expecting property name enclosed in double quotes", i + 1)
        ELSE JSONObjectRest(toks, i + 1, << >>)
    ELSE IF t = "[" THEN
        IF Tok(toks, i + 1) = "]" THEN Parsed(PyList(<< >>), i + 2)
        ELSE JSONArrayRest(toks, i + 1, << >>)
    ELSE IF t = "null" THEN Parsed(PyNone, i + 1)
    ELSE IF t = "true" THEN Parsed(PyBool(TRUE), i + 1)
    ELSE IF t = "false" THEN Parsed(PyBool(FALSE), i + 1)
    ELSE IF t \in FloatLexemes THEN Parsed(PyFloat(FloatOf(t)), i + 1)
    ELSE IF t \in IntLexemes THEN Parsed(PyInt(IntOf(t)), i + 1)
    ELSE IF t = "NaN" THEN Parsed(PySpecialFloat("nan"), i + 1)
    ELSE IF t = "Infinity" THEN Parsed(PySpecialFloat("inf"), i + 1)
    ELSE IF t = "-Infinity" THEN Parsed(PySpecialFloat("-inf"), i + 1)
    ELSE ParseError("Expecting value", i)

\* json.decoder JSONArray, from the first element on
JSONArrayRest(toks, i, acc) ==
    LET v == scan_once(toks, i) IN
    IF ~v.ok THEN v
    ELSE LET t == Tok(toks, v.next) IN
         IF t = "]" THEN Parsed(PyList(Append(acc, v.val)), v.next + 1)
         ELSE IF t # "," THEN ParseError("Expecting ',' delimiter", v.next)
         ELSE JSONArrayRest(toks, v.next + 1, Append(acc, v.val))

\* json.decoder JSONObject, from a property name on
JSONObjectRest(toks, i, acc) ==
    LET key == PyStr(StrOf(Tok(toks, i))) IN
    IF Tok(toks, i + 1) # ":" THEN ParseError("Expecting ':' delimiter", i + 1)
    ELSE LET v == scan_once(toks, i + 2) IN
         IF ~v.ok THEN v
         ELSE LET t == Tok(toks, v.next)
                  acc2 == DictSet(acc, key, v.val) IN
              IF t = "}" THEN Parsed(PyDict(acc2), v.next + 1)
              ELSE IF t # "," THEN ParseError("Expecting ',' delimiter", v.next)
              ELSE IF Tok(toks, v.next + 1) \notin StrLexemes
              THEN ParseError("Expecting property name enclosed in double quotes",
                              v.next + 1)
              ELSE JSONObjectRest(toks, v.next + 1, acc2)

\* json.loads: one value, then the end of the text
loads(toks) ==
    LET v == scan_once(toks, 1) IN
    IF ~v.ok THEN v
    ELSE IF v.next # Len(toks) + 1 THEN ParseError("Extra data", v.next)
    ELSE v

(***************************************************************************)
(* json.dumps.                                                             *)
(***************************************************************************)
RECURSIVE dumps(_), DumpItems(_), DumpPairs(_)

DumpItems(items) ==
    IF items = << >> THEN << >>
    ELSE IF Len(items) = 1 THEN dumps(items[1])
    ELSE dumps(items[1]) \o << "," >> \o DumpItems(Tail(items))

DumpPairs(items) ==
    IF items = << >> THEN << >>
    ELSE dumps(items[1]) \o << ":" >> \o dumps(items[2])
         \o (IF Len(items) = 2 THEN << >>
             ELSE << "," >> \o DumpPairs(SubSeq(items, 3, Len(items))))

dumps(o) ==
    CASE o.k = "list"  -> << "[" >> \o DumpItems(o.items) \o << "]" >>
      [] o.k = "dict"  -> << "{" >> \o DumpPairs(o.items) \o << "}" >>
      [] o.k = "str"   -> << Quote(o.s) >>
      [] o.k = "int"   -> << IntRepr(o.n) >>
      [] o.k = "float" -> IF o.s = "nan" THEN << "NaN" >>
                          ELSE IF o.s = "inf" THEN << "Infinity" >>
                          ELSE IF o.s = "-inf" THEN << "-Infinity" >>
                          ELSE << FloatRepr(o.n) >>
      [] o.k = "bool"  -> IF o.n = 1 THEN << "true" >> ELSE << "false" >>
      [] o.k = "None"  -> << "null" >>

(***************************************************************************)
(* Exceptions.  msg is str(e), split at its newlines (the position that    *)
(* ends a JSONDecodeError's message is left out).                          *)
(***************************************************************************)
\* arg is the argument of a SystemExit, which the interpreter reads when
\* nobody catches it: none, an int, or any other object (its str, in lines)
NoArg == [k |-> "none", n |-> 0, s |-> << >>]
IntArg(n) == [k |-> "int", n |-> n, s |-> << >>]
StrArg(lines) == [k |-> "str", n |-> 0, s |-> lines]

Exc(cls, msg) == [cls |-> cls, msg |-> msg, arg |-> NoArg]
NoExc == Exc("", << >>)

\* SystemExit(), SystemExit(n), SystemExit('text')
SysExit(msg, arg) == [cls |-> "SystemExit", msg |-> msg, arg |-> arg]

\* classes that do not derive from Exception, only from BaseException
BaseOnlyClasses == {"KeyboardInterrupt", "SystemExit", "GeneratorExit"}

\* a handler that names one class only: except json.JSONDecodeError
IsExceptionNarrow(cls) == cls = "JSONDecodeError"

\* whether `except Exception` (line 25) matches an exception of class cls
IsException(cls) == cls \notin BaseOnlyClasses

(***************************************************************************)
(* The collaborator: SentenceTransformer (line 14) and encode (line 17).   *)
(* Its code is outside the repository: it either returns or raises, and    *)
(* gives the same answer whenever it is asked the same thing.              *)
(***************************************************************************)
NdArray(ndim, rows) == [t |-> "ndarray", ndim |-> ndim, rows |-> rows]
NoArray == [t |-> "none", ndim |-> 0, rows |-> << >>]

\* the embedding of one string: a fixed vector per string
Vec(s) == IF s = "a" THEN << 2, -6 >> ELSE << 1, 8 >>

\* whether a decoded value is a list of str
IsStrList(o) == o.k = "list" /\ \A i \in DOMAIN o.items : o.items[i].k = "str"

\* encode on a list of str: one vector per string, in input order
Embed(o) == NdArray(2, [i \in DOMAIN o.items |-> Vec(o.items[i].s)])

\* what the collaborator may raise: single-line and multi-line messages,
\* and exceptions that do not derive from Exception
CollabRaises ==
    { Exc("RuntimeError", << "out of memory" >>),
      Exc("OSError", << "cannot load the model", "check your connection" >>),
      Exc("KeyboardInterrupt", << "" >>),
      Exc("GeneratorExit", << "" >>),
      SysExit(<< "" >>, NoArg),
      SysExit(<< "1" >>, IntArg(1)),
      SysExit(<< "2" >>, IntArg(2)),
      SysExit(<< "" >>, StrArg(<< "" >>)),
      SysExit(<< "fatal" >>, StrArg(<< "fatal" >>)),
      SysExit(<< "fatal", "giving up" >>, StrArg(<< "fatal", "giving up" >>)) }

Returns(val) == [raises |-> FALSE, exc |-> NoExc, val |-> val]
Raises(e) == [raises |-> TRUE, exc |-> e, val |-> NoArray]

\* outcomes of SentenceTransformer('all-MiniLM-L6-v2')
LoadOutcomes == {Returns(NoArray)} \cup {Raises(e) : e \in CollabRaises}

\* the text the collaborator's tokenizer makes of one element of a batch:
\* str(element).strip()
TextOf(o) == IF o.k = "str" THEN o.s ELSE "other"

\* a value without len(): the library counts it as a text of length 1
IsScalar(o) == o.k \in {"int", "float", "bool", "None"}

\* a batch the library tokenizes as single texts: its first element is a
\* str and every element is a str, a scalar or a list of str
IsTextBatch(o) ==
    /\ o.k = "list"
    /\ o.items # << >>
    /\ o.items[1].k = "str"
    /\ \A i \in DOMAIN o.items :
        \/ o.items[i].k = "str"
        \/ IsScalar(o.items[i])
        \/ IsStrList(o.items[i])

\* a batch the library tokenizes as pairs of texts (it reads element[0] and
\* element[1]): every element is a list of at least two str
IsPairBatch(o) ==
    /\ o.k = "list"
    /\ o.items # << >>
    /\ \A i \in DOMAIN o.items :
        IsStrList(o.items[i]) /\ Len(o.items[i].items) >= 2

\* a batch the library tokenizes as keyed texts (it reads the first value of
\* each element): every element is a dict whose first value is a str
IsKeyedBatch(o) ==
    /\ o.k = "list"
    /\ o.items # << >>
    /\ \A i \in DOMAIN o.items :
        /\ o.items[i].k = "dict"
        /\ o.items[i].items # << >>
        /\ o.items[i].items[2].k = "str"

\* outcomes of model.encode(arg): per contract on a list of str.  On any
\* other argument the contract says nothing; the library embeds a lone str
\* as one sentence (one flat vector), embeds a batch it can tokenize one
\* vector per element (str(element) for an element that is no str), gives
\* an empty array for an empty dict, and fails on everything else.  Every
\* call may fail.
EncodeOutcomes(arg) ==
    (IF IsStrList(arg) THEN {Returns(Embed(arg))}
     ELSE IF arg.k = "str" THEN {Returns(NdArray(1, << Vec(arg.s) >>))}
     ELSE IF IsTextBatch(arg) \/ IsPairBatch(arg) \/ IsKeyedBatch(arg)
     THEN {Returns(NdArray(2, [i \in DOMAIN arg.items |-> Vec(TextOf(arg.items[i]))]))}
     ELSE IF arg.k = "dict" /\ arg.items = << >> THEN {Returns(NdArray(2, << >>))}
     ELSE {})
    \cup {Raises(e) : e \in CollabRaises}

NoOracle == [loadSet |-> FALSE, load |-> Returns(NoArray),
             encSet |-> FALSE, encArg |-> PyNone, enc |-> Returns(NoArray)]

(***************************************************************************)
(* ndarray.tolist (line 20).                                               *)
(***************************************************************************)
FloatList(row) == PyList([j \in DOMAIN row |-> PyFloat(row[j])])

Reverse(q) == [i \in DOMAIN q |-> q[Len(q) + 1 - i]]

\* a conversion that walks the rows backwards
tolistReversed(a) ==
    IF a.ndim = 1 THEN FloatList(a.rows[1])
    ELSE PyList(Reverse([i \in DOMAIN a.rows |-> FloatList(a.rows[i])]))

tolist(a) ==
    IF a.ndim = 1 THEN FloatList(a.rows[1])
    ELSE PyList([i \in DOMAIN a.rows |-> FloatList(a.rows[i])])

(***************************************************************************)
(* The streams.  A line is a sequence of lexemes.                          *)
(***************************************************************************)
\* print(f"Error: {str(e)}", file=sys.stderr): one line per line of str(e)
ErrorLines(e) ==
    << << "Error:", e.msg[1] >> >>
    \o [i \in 1..(Len(e.msg) - 1) |-> << e.msg[i + 1] >>]

\* the interpreter's report of an exception nobody caught
TracebackLines(e) ==
    << << "Traceback (most recent call last):" >>, << e.cls >> >>

ExitSuccess == 0
\* a handler that ends the process with sys.exit(0)
ExitFailureAsSuccess == ExitSuccess
ExitFailure == 1
ExitSigInt == 130
ExitUncaught == 1
\* exit statuses are one byte wide
StatusModulus == 256

\* the lines the interpreter writes when an exception leaves main():
\* nothing for SystemExit() and SystemExit(n), the text for SystemExit of
\* another object, a traceback for every other class
UncaughtLines(e) ==
    IF e.cls = "SystemExit"
    THEN IF e.arg.k = "str" THEN [i \in DOMAIN e.arg.s |-> << e.arg.s[i] >>]
         ELSE << >>
    ELSE TracebackLines(e)

\* the exit status the interpreter ends with when an exception leaves
\* main(): SystemExit() 0, SystemExit(n) n, SystemExit of another object 1,
\* KeyboardInterrupt 130 (the process ends on SIGINT), any other class 1
UncaughtStatus(e) ==
    IF e.cls = "SystemExit"
    THEN IF e.arg.k = "none" THEN ExitSuccess
         ELSE IF e.arg.k = "int" THEN e.arg.n % StatusModulus
         ELSE ExitUncaught
    ELSE IF e.cls = "KeyboardInterrupt" THEN ExitSigInt
    ELSE ExitUncaught
Running == -1

\* contents of the two streams when a process starts
FreshStreams == [out |-> << >>, err |-> << >>]

\* what a run shows, and the error handler its sys.stdin had
NoOutcome == [out |-> << >>, err |-> << >>, code |-> Running,
              errors |-> "strict"]
Outcome == [out |-> stdout, err |-> stderr, code |-> exitcode,
            errors |-> stdin_errors]

(***************************************************************************)
(* Inputs.                                                                 *)
(***************************************************************************)
Alphabet == {"[", "]", ",", "\"a\"", "\"b\"", "1", "{", "}", ":", "NaN", "not"}

AllSeqs(S, n) == UNION {[1..m -> S] : m \in 0..n}

Samples ==
    { << "[", "\"a\"", ",", "\"b\"", "]" >>,
      << "[", "\"b\"", ",", "\"a\"", "]" >>,
      << "[", "\"a\"", ",", "\"a\"", ",", "\"b\"", "]" >>,
      << "[", "\"a\"", ",", "NaN", "]" >>,
      << "[", "\"a\"", ",", "1", "]" >>,
      << "[", "[", "\"a\"", "]", "]" >>,
      << "[", "[", "\"a\"", ",", "\"b\"", "]", "]" >>,
      << "[", "{", "\"a\"", ":", "\"b\"", "}", "]" >>,
      << "{", "\"a\"", ":", "1", "}" >>,
      << "{", "\"a\"", ":", "1", ",", "\"a\"", ":", "0", "}" >>,
      << "[", "0.5", ",", "null", ",", "true", "]" >>,
      << "not", "json" >>,
      << "-Infinity" >>,
      << BadByte >>,
      << "[", BadByte, "]" >> }

Inputs == AllSeqs(Alphabet, MaxLen) \cup Samples

(***************************************************************************)
(* The program.                                                            *)
(***************************************************************************)
\* the error handler of sys.stdin: strict under a UTF-8 locale,
\* surrogateescape under the C locale; it matters only for a bad byte
ErrorHandlers(content) ==
    IF \E i \in DOMAIN content : content[i] = BadByte
    THEN {"strict", "surrogateescape"} ELSE {"strict"}

Init ==
    /\ stdin \in Inputs
    /\ stdin_errors \in ErrorHandlers(stdin)
    /\ pc = "read"
    /\ input_text = << >>
    /\ texts = PyNone
    /\ model = FALSE
    /\ embeddings = NoArray
    /\ embeddings_list = PyNone
    /\ exc = NoExc
    /\ stdout = << >>
    /\ stderr = << >>
    /\ exitcode = Running
    /\ raised = NoExc
    /\ raisedAt = ""
    /\ encodeCalls = << >>
    /\ steps = << >>
    /\ run = 1
    /\ oracle = NoOracle
    /\ prev = NoOutcome

\* an exception leaves the try block (line 8) for its except clause
Raise(e, step) ==
    /\ exc' = e
    /\ raised' = e
    /\ raisedAt' = step
    /\ pc' = "except"

NoRaise == UNCHANGED << exc, raised, raisedAt >>

\* line 10: input_text = sys.stdin.read(): the whole stream; a byte that is
\* not UTF-8 raises under the strict handler and is passed on as a lone
\* surrogate (which json.loads rejects outside a string) otherwise
Read ==
    /\ pc = "read"
    /\ steps' = Append(steps, "read")
    /\ IF stdin_errors = "strict" /\ \E i \in DOMAIN stdin : stdin[i] = BadByte
       THEN /\ Raise(Exc("UnicodeDecodeError",
                         << "'utf-8' codec can't decode byte 0xff" >>), "read")
            /\ UNCHANGED input_text
       ELSE /\ input_text' = stdin
            /\ pc' = "parse"
            /\ NoRaise
    /\ UNCHANGED << stdin, stdin_errors, texts, model, embeddings, embeddings_list, stdout,
                    stderr, exitcode, encodeCalls, run, oracle, prev >>

\* line 11: texts = json.loads(input_text)
Parse ==
    /\ pc = "parse"
    /\ steps' = Append(steps, "parse")
    /\ LET r == loads(input_text) IN
       IF r.ok
       THEN /\ texts' = r.val
            /\ pc' = "load"
            /\ NoRaise
       ELSE /\ Raise(Exc("JSONDecodeError", << r.msg >>), "parse")
            /\ UNCHANGED texts
    /\ UNCHANGED << stdin, stdin_errors, input_text, model, embeddings, embeddings_list,
                    stdout, stderr, exitcode, encodeCalls, run, oracle, prev >>

\* line 14: model = SentenceTransformer('all-MiniLM-L6-v2')
LoadModel ==
    /\ pc = "load"
    /\ steps' = Append(steps, "load")
    /\ \E o \in LoadOutcomes :
        /\ oracle.loadSet => o = oracle.load
        /\ oracle' = [oracle EXCEPT !.loadSet = TRUE, !.load = o]
        /\ IF o.raises
           THEN /\ Raise(o.exc, "load")
                /\ UNCHANGED model
           ELSE /\ model' = TRUE
                /\ pc' = "encode"
                /\ NoRaise
    /\ UNCHANGED << stdin, stdin_errors, input_text, texts, embeddings, embeddings_list,
                    stdout, stderr, exitcode, encodeCalls, run, prev >>

\* a call that passes the first string only: model.encode(texts[:1])
EncodeArgFirstOnly ==
    IF texts.k = "list" /\ Len(texts.items) > 1
    THEN PyList(<< texts.items[1] >>) ELSE texts

\* a call that drops duplicates through a set: model.encode(list(set(texts))).
\* The order of a set of str follows the hash seed, which differs from one
\* process to the next (here: from one run to the next)
EncodeArgViaSet ==
    IF texts.k = "list" /\ run % 2 = 0
    THEN PyList(Reverse(texts.items)) ELSE texts

\* the argument line 17 passes to encode
EncodeArg == texts

\* line 17: embeddings = model.encode(texts)
Encode ==
    /\ pc = "encode"
    /\ steps' = Append(steps, "encode")
    /\ encodeCalls' = Append(encodeCalls, EncodeArg)
    /\ \E o \in EncodeOutcomes(EncodeArg) :
        /\ (oracle.encSet /\ oracle.encArg = EncodeArg) => o = oracle.enc
        /\ oracle' = [oracle EXCEPT !.encSet = TRUE, !.encArg = EncodeArg,
                                    !.enc = o]
        /\ IF o.raises
           THEN /\ Raise(o.exc, "encode")
                /\ UNCHANGED embeddings
           ELSE /\ embeddings' = o.val
                /\ pc' = "tolist"
                /\ NoRaise
    /\ UNCHANGED << stdin, stdin_errors, input_text, texts, model, embeddings_list, stdout,
                    stderr, exitcode, run, prev >>

\* line 20: embeddings_list = embeddings.tolist()
ToList ==
    /\ pc = "tolist"
    /\ steps' = Append(steps, "tolist")
    /\ embeddings_list' = tolist(embeddings)
    /\ pc' = "print"
    /\ UNCHANGED << stdin, stdin_errors, input_text, texts, model, embeddings, exc, stdout,
                    stderr, exitcode, raised, raisedAt, encodeCalls, run,
                    oracle, prev >>

\* a print that is skipped when there is nothing to embed
EmittedLinesSkipEmpty ==
    IF embeddings_list.items = << >> THEN << >>
    ELSE << dumps(embeddings_list) >>

\* the lines line 23 writes to standard output
EmittedLines == << dumps(embeddings_list) >>

\* line 23: print(json.dumps(embeddings_list))
Emit ==
    /\ pc = "print"
    /\ steps' = Append(steps, "print")
    /\ stdout' = stdout \o EmittedLines
    /\ pc' = "return"
    /\ UNCHANGED << stdin, stdin_errors, input_text, texts, model, embeddings,
                    embeddings_list, exc, stderr, exitcode, raised, raisedAt,
                    encodeCalls, run, oracle, prev >>

\* lines 29-30: main() returns and the script ends
Return ==
    /\ pc = "return"
    /\ exitcode' = ExitSuccess
    /\ pc' = "done"
    /\ UNCHANGED << stdin, stdin_errors, input_text, texts, model, embeddings,
                    embeddings_list, exc, stdout, stderr, raised, raisedAt,
                    encodeCalls, steps, run, oracle, prev >>

\* lines 25-27: except Exception as e: print the error, sys.exit(1)
Handler ==
    /\ pc = "except"
    /\ IsException(exc.cls)
    /\ steps' = Append(steps, "handler")
    /\ stderr' = stderr \o ErrorLines(exc)
    /\ exitcode' = ExitFailure
    /\ exc' = NoExc
    /\ pc' = "done"
    /\ UNCHANGED << stdin, stdin_errors, input_text, texts, model, embeddings,
                    embeddings_list, stdout, raised, raisedAt, encodeCalls,
                    run, oracle, prev >>

\* line 25 does not match: the exception leaves main() and the interpreter
\* ends the process
Uncaught ==
    /\ pc = "except"
    /\ ~IsException(exc.cls)
    /\ steps' = Append(steps, "uncaught")
    /\ exitcode' = UncaughtStatus(exc)
    /\ stderr' = stderr \o UncaughtLines(exc)
    /\ exc' = NoExc
    /\ pc' = "done"
    /\ UNCHANGED << stdin, stdin_errors, input_text, texts, model, embeddings,
                    embeddings_list, stdout, raised, raisedAt, encodeCalls,
                    run, oracle, prev >>

\* the program is invoked again on the same standard input: a new process
\* in an environment of its own (its locale sets the error handler of
\* sys.stdin anew), with the same collaborator
Rerun ==
    /\ pc = "done"
    /\ run < MaxRuns
    /\ run' = run + 1
    /\ prev' = Outcome
    /\ pc' = "read"
    /\ input_text' = << >>
    /\ texts' = PyNone
    /\ model' = FALSE
    /\ embeddings' = NoArray
    /\ embeddings_list' = PyNone
    /\ exc' = NoExc
    /\ stdout' = FreshStreams.out
    /\ stderr' = FreshStreams.err
    /\ exitcode' = Running
    /\ raised' = NoExc
    /\ raisedAt' = ""
    /\ encodeCalls' = << >>
    /\ steps' = << >>
    /\ stdin_errors' \in ErrorHandlers(stdin)
    /\ UNCHANGED << stdin, oracle >>

Next ==
    \/ Read
    \/ Parse
    \/ LoadModel
    \/ Encode
    \/ ToList
    \/ Emit
    \/ Return
    \/ Handler
    \/ Uncaught
    \/ Rerun

Spec == Init /\ [][Next]_vars

\* the process is single-threaded and synchronous: a step that can run does
FairSpec == Spec /\ WF_vars(Next)

(***************************************************************************)
(* Vocabulary of the claims.                                               *)
(***************************************************************************)
Range(q) == {q[i] : i \in DOMAIN q}
IsPrefix(p, q) == Len(p) <= Len(q) /\ \A i \in DOMAIN p : p[i] = q[i]
NoRepeat(q) == \A i, j \in DOMAIN q : q[i] = q[j] => i = j

\* the bytes of standard input are UTF-8
Decodable == \A i \in DOMAIN stdin : stdin[i] # BadByte
\* what standard input decodes to
Document == loads(stdin)
\* standard input is a JSON document in the sense of RFC 8259
StrictJSON ==
    /\ Decodable
    /\ Document.ok
    /\ \A i \in DOMAIN stdin : stdin[i] \notin NonStandardConstants
\* standard input is a request: a JSON array of strings
ValidRequest == StrictJSON /\ IsStrList(Document.val)
\* valid JSON of another shape
WrongShape == StrictJSON /\ ~IsStrList(Document.val)
\* the j-th string of a request, read off the text: [ s1 , s2 , ... ]
RequestString(j) == StrOf(stdin[2 * j])

Done == pc = "done"
\* the run went through without any exception
Success == Done /\ raised = NoExc
\* no exception outside the Exception hierarchy was raised in this run
NoBaseException == raised.cls \notin BaseOnlyClasses
\* standard error holds a line that begins with Error:
ErrorReported == \E i \in DOMAIN stderr : stderr[i][1] = "Error:"
\* a JSON number
IsNumber(o) == o.k \in {"int", "float"} /\ o.s = ""
\* a line holds a JSON array of arrays of numbers
IsArrayOfArraysOfNumbers(line) ==
    LET r == loads(line) IN
    /\ r.ok
    /\ r.val.k = "list"
    /\ \A i \in DOMAIN r.val.items :
        /\ r.val.items[i].k = "list"
        /\ \A j \in DOMAIN r.val.items[i].items : IsNumber(r.val.items[i].items[j])

\* encode returned one vector per string of the request, in input order
ContractReturn ==
    /\ embeddings.t = "ndarray"
    /\ embeddings.ndim = 2
    /\ Len(embeddings.rows) = Len(Document.val.items)
    /\ \A i \in DOMAIN embeddings.rows : embeddings.rows[i] = Vec(RequestString(i))

TwoStrings == << "[", "\"a\"", ",", "\"b\"", "]" >>

(***************************************************************************)
(* The claims.                                                             *)
(***************************************************************************)

\* C1: for a valid request on which encode returned one vector per string in
\* input order, the run succeeds and the one line on standard output decodes
\* to an array as long as the request whose i-th element is, number by
\* number and in the same order, the vector returned for the i-th string.
C1_ResponseMatchesRequest ==
    (Done /\ ValidRequest /\ ContractReturn) =>
        /\ raised = NoExc
        /\ exitcode = 0
        /\ Len(stdout) = 1
        /\ LET resp == loads(stdout[1]) IN
            /\ resp.ok
            /\ resp.val.k = "list"
            /\ Len(resp.val.items) = Len(Document.val.items)
            /\ \A i \in DOMAIN resp.val.items :
                LET v == resp.val.items[i] IN
                /\ v.k = "list"
                /\ Len(v.items) = Len(embeddings.rows[i])
                /\ \A j \in DOMAIN v.items :
                    v.items[j] = PyFloat(Vec(RequestString(i))[j])

C1_Witness ==
    /\ Done
    /\ stdin = TwoStrings
    /\ stdout = << << "[", "[", "0.5", ",", "-1.5", "]", ",",
                      "[", "0.25", ",", "2.0", "]", "]" >> >>

\* C2: on valid JSON that is not an array of strings the parse step fails:
\* once the parse step has run the exception it raised is in flight, and the
\* run ends with an Error: line, exit code 1 and nothing on standard output.
C2_WrongShapeFailsAtParse ==
    WrongShape =>
        /\ "parse" \in Range(steps) => raisedAt = "parse"
        /\ Done => (ErrorReported /\ exitcode = 1 /\ stdout = << >>)

\* C3: on standard input that is not valid JSON the run writes no line to
\* standard output and ends with an Error: line and exit code 1.  (Stated
\* for the runs in which no exception outside the Exception hierarchy is
\* raised: what refutes this refutes the claim.)
C3_InvalidJsonRejected ==
    (~StrictJSON /\ NoBaseException) =>
        /\ stdout = << >>
        /\ Done => (ErrorReported /\ exitcode = 1)

\* C4, as claimed: any exception raised in a step is caught by the handler,
\* which writes exactly one line, Error: <description>, and exits with 1;
\* nothing is on standard output and no step ran twice.
C4_AnyExceptionOneLine ==
    (Done /\ raised # NoExc) =>
        /\ steps[Len(steps)] = "handler"
        /\ Len(stderr) = 1
        /\ stderr[1][1] = "Error:"
        /\ exitcode = 1
        /\ stdout = << >>
        /\ NoRepeat(steps)

\* C4, amended: an exception of the Exception hierarchy raised in a step is
\* caught by the handler, which writes Error: <description> (as many lines
\* as the description has, the first one beginning with Error:, so exactly
\* one line for a description without a newline) and exits with 1; nothing
\* is on standard output and no step ran twice.
C4_ExceptionReported ==
    (Done /\ raised # NoExc /\ NoBaseException) =>
        /\ steps[Len(steps)] = "handler"
        /\ Len(stderr) = Len(raised.msg)
        /\ stderr[1] = << "Error:", raised.msg[1] >>
        /\ \A i \in 2..Len(stderr) : stderr[i] = << raised.msg[i] >>
        /\ exitcode = 1
        /\ stdout = << >>
        /\ NoRepeat(steps)

C4_Witness ==
    /\ Done
    /\ raisedAt = "encode"
    /\ raised.cls = "OSError"
    /\ Len(stderr) = 2
    /\ exitcode = 1

\* C5: standard output never holds more than one line, and a run that went
\* through without an exception ends with exit code 0 and exactly one line
\* on standard output, a JSON array of arrays of numbers.
C5_OneLineOfVectors ==
    /\ Len(stdout) <= 1
    /\ Success =>
        /\ exitcode = 0
        /\ Len(stdout) = 1
        /\ IsArrayOfArraysOfNumbers(stdout[1])

\* C6: on the request [] a run in which the collaborator does not fail
\* passes the empty list to encode, writes the line [] and exits with 0.
C6_EmptyRequest ==
    (Done /\ stdin = << "[", "]" >> /\ raised = NoExc) =>
        /\ encodeCalls = << PyList(<< >>) >>
        /\ stdout = << << "[", "]" >> >>
        /\ exitcode = 0

C6_Witness ==
    /\ Done
    /\ stdin = << "[", "]" >>
    /\ stdout = << << "[", "]" >> >>
    /\ exitcode = 0

\* C7: encode is called at most once in a run and exactly once in a run that
\* went through, always with the whole decoded input: for a request, every
\* string of it in the order of the text.
C7_OneBatchCall ==
    /\ Len(encodeCalls) <= 1
    /\ Success => Len(encodeCalls) = 1
    /\ \A c \in DOMAIN encodeCalls :
        /\ encodeCalls[c] = Document.val
        /\ ValidRequest =>
            /\ Len(stdin) = IF encodeCalls[c].items = << >> THEN 2
                             ELSE 2 * Len(encodeCalls[c].items) + 1
            /\ \A j \in DOMAIN encodeCalls[c].items :
                encodeCalls[c].items[j] = PyStr(RequestString(j))

C7_Witness ==
    /\ Success
    /\ stdin = TwoStrings
    /\ encodeCalls = << PyList(<< PyStr("a"), PyStr("b") >>) >>

\* C8: on input that is not a JSON array of strings encode is never called.
C8_NoEncodeOnInvalid ==
    ~ValidRequest => encodeCalls = << >>

StepOrder == << "read", "parse", "load", "encode", "tolist", "print" >>

\* the steps of this run without the handler that may end it
ProgramSteps ==
    IF steps # << >> /\ steps[Len(steps)] = "handler"
    THEN SubSeq(steps, 1, Len(steps) - 1) ELSE steps

OutcomeOk == exitcode = 0 /\ Len(stdout) = 1 /\ stderr = << >>
OutcomeError == exitcode = 1 /\ stdout = << >> /\ ErrorReported

\* C10: every run terminates; and as long as no exception outside the
\* Exception hierarchy is raised, a terminated run shows one of the two
\* outcomes (0, one line on standard output, nothing on standard error) or
\* (1, nothing on standard output, an Error: line on standard error), no
\* state has output on both streams or exit code 0 without a line on
\* standard output, and the steps run in program order, none twice.
C10_TerminatesInOneOfTwoOutcomes ==
    /\ \A r \in 1..MaxRuns : <>(run = r /\ Done)
    /\ [](NoBaseException =>
            /\ Done => (OutcomeOk \/ OutcomeError)
            /\ ~(stdout # << >> /\ stderr # << >>)
            /\ ~(exitcode = 0 /\ stdout = << >>)
            /\ IsPrefix(ProgramSteps, StepOrder))

C10_Witness ==
    /\ run = MaxRuns
    /\ Done
    /\ OutcomeError
    /\ raisedAt = "load"
    /\ steps = << "read", "parse", "load", "handler" >>

=============================================================================
